---- MODULE Spec2Model ----
(***************************************************************************)
(* Grants model engine of accesscontrol (lib/utils.js): the grants table,  *)
(* the rule committer, the role hierarchy resolver, the query evaluator    *)
(* and the lock.                                                           *)
(*                                                                         *)
(* Representation.                                                         *)
(*  - A JS object is a function whose DOMAIN is its set of own keys.       *)
(*  - A string that the code splits on ':' or joins with ':' is kept as    *)
(*    the sequence of its ':'-separated parts ("create:own" is             *)
(*    <<"create", "own">>); split and join are then the identity on        *)
(*    that representation and string concatenation with ':' is \o.         *)
(*  - undefined is the string UNDEF, which is also what JS string          *)
(*    concatenation turns undefined into.                                  *)
(*  - Role, resource and attribute lists are always passed as arrays, on   *)
(*    which toStringArray returns its argument.                            *)
(*  - A thrown error is the error kind of spec section 7; TypeError and    *)
(*    RangeError are the engine's own errors (write to a frozen object or  *)
(*    read of a property of undefined; call stack exhausted).              *)
(***************************************************************************)
EXTENDS Naturals, Sequences, FiniteSets, TLC

VARIABLES grants, frozen, isLocked, last

vars == <<grants, frozen, isLocked, last>>

(* ------------------------------ bounds --------------------------------- *)

\* longest role / resource / extender list passed to an operation
MaxList == 2

\* most entries of all $extend lists of a raw grants object together
MaxEdges == 4

(* --------------------------- program constants ------------------------- *)

RESERVED_KEYWORDS == {"*", "!", "$", "$extend"}

actions == {"create", "read", "update", "delete"}

possessions == {"own", "any"}

UNDEF == "undefined"

OK == "none"

(* ------------------------------ generic utils -------------------------- *)

EmptyObject == [k \in {} |-> {}]

\* o.hasOwnProperty(k)
hasOwnProperty(o, k) == k \in DOMAIN o

\* o[k] = v on an extensible object
SetProp(o, k, v) == [x \in (DOMAIN o) \cup {k} |-> IF x = k THEN v ELSE o[x]]

\* String.prototype.trim, on the strings the model uses
trim(s) == IF s \in {"", " "} THEN "" ELSE s

\* String.prototype.toLowerCase, on the strings the model uses
toLowerCase(s) ==
    CASE s = "CREATE" -> "create"
      [] s = "OWN"    -> "own"
      [] s = "ANY"    -> "any"
      [] OTHER        -> s

indexOf(arr, item) == \E i \in DOMAIN arr : arr[i] = item

isFilledStringArray(arr) == \A i \in DOMAIN arr : trim(arr[i]) # ""

isEmptyArray(arr) == arr = <<>>

pushUniq(arr, item) == IF indexOf(arr, item) THEN arr ELSE Append(arr, item)

\* uniqConcat without the test of pushUniq
uniqConcat_plain(arrA, arrB) == arrA \o arrB

RECURSIVE uniqConcat(_, _)
uniqConcat(arrA, arrB) ==
    IF arrB = <<>> THEN arrA
    ELSE uniqConcat(pushUniq(arrA, Head(arrB)), Tail(arrB))

(* ----------------------------- validation ------------------------------ *)

\* validName without the test against the reserved keywords
validName_blankOnly(name) == IF trim(name) = "" THEN "InvalidName" ELSE OK

\* validName(name, true): the error it throws, or OK
validName(name) ==
    IF trim(name) = "" THEN "InvalidName"
    ELSE IF name \in RESERVED_KEYWORDS THEN "InvalidName"
    ELSE OK

(* ----------------------------- grants table ---------------------------- *)

\* {} as a role entry: no resource, no $extend key
EmptyRole == [res |-> EmptyObject, hasExtend |-> FALSE, extend |-> <<>>]

\* the paths of the objects of the table: the table, each role, each resource
ObjectsOf(g) ==
    {<<>>} \cup {<<r>> : r \in DOMAIN g}
           \cup UNION {{<<r, x>> : x \in DOMAIN g[r].res} : r \in DOMAIN g}

\* Array.isArray(role.$extend) && role.$extend.length > 0
extendOf(role) == IF role.hasExtend THEN role.extend ELSE <<>>

(* --------------------------- hierarchy resolver ------------------------ *)

\* a chain of nested calls longer than the number of roles repeats a role
\* under the same root and never returns: the call stack is exhausted
StackLimit(g) == Cardinality(DOMAIN g) + 1

RECURSIVE getRoleHierarchyOf(_, _, _, _)
RECURSIVE hierarchyEach(_, _, _, _, _, _)

\* the forEach over role.$extend, arr being the accumulated list
hierarchyEach(g, roleName, rootRole, exts, arr, depth) ==
    IF exts = <<>> THEN [err |-> OK, list |-> arr]
    ELSE LET exRoleName == Head(exts) IN
        IF ~hasOwnProperty(g, exRoleName) THEN [err |-> "RoleNotFound", list |-> <<>>]
        ELSE IF exRoleName = roleName THEN [err |-> "SelfExtension", list |-> <<>>]
        ELSE IF rootRole # UNDEF /\ rootRole = exRoleName
            THEN [err |-> "CrossInheritance", list |-> <<>>]
        ELSE LET ext == getRoleHierarchyOf(g, exRoleName,
                            IF rootRole # UNDEF THEN rootRole ELSE roleName, depth + 1)
             IN IF ext.err # OK THEN ext
                ELSE hierarchyEach(g, roleName, rootRole, Tail(exts),
                                   uniqConcat(arr, ext.list), depth)

getRoleHierarchyOf(g, roleName, rootRole, depth) ==
    IF depth > StackLimit(g) THEN [err |-> "RangeError", list |-> <<>>]
    ELSE IF ~hasOwnProperty(g, roleName) THEN [err |-> "RoleNotFound", list |-> <<>>]
    ELSE IF extendOf(g[roleName]) = <<>> THEN [err |-> OK, list |-> <<roleName>>]
    ELSE hierarchyEach(g, roleName, rootRole, g[roleName].extend, <<roleName>>, depth)

RECURSIVE flatEach(_, _, _)
flatEach(g, roles, arr) ==
    IF roles = <<>> THEN [err |-> OK, list |-> arr]
    ELSE LET h == getRoleHierarchyOf(g, Head(roles), UNDEF, 0) IN
        IF h.err # OK THEN h
        ELSE flatEach(g, Tail(roles), uniqConcat(arr, h.list))

getFlatRoles(g, roles) ==
    IF Len(roles) = 0 THEN [err |-> "InvalidRoleList", list |-> <<>>]
    ELSE flatEach(g, roles, uniqConcat(<<>>, roles))

\* getNonExistentRoles that finds every role
getNonExistentRoles_none(g, roles) == <<>>

RECURSIVE getNonExistentRoles(_, _)
getNonExistentRoles(g, roles) ==
    IF isEmptyArray(roles) THEN <<>>
    ELSE (IF hasOwnProperty(g, Head(roles)) THEN <<>> ELSE <<Head(roles)>>)
         \o getNonExistentRoles(g, Tail(roles))

\* getCrossExtendingRole that never reports an extender
getCrossExtendingRole_never(g, roleName, extenders) == [err |-> OK, cross |-> UNDEF]

\* getCrossExtendingRole that looks at the extender's own $extend list only
getCrossExtendingRole_direct(g, roleName, extenders) ==
    LET hits == {i \in DOMAIN extenders :
                    /\ hasOwnProperty(g, extenders[i])
                    /\ indexOf(extendOf(g[extenders[i]]), roleName)}
    IN IF hits = {} THEN [err |-> OK, cross |-> UNDEF]
       ELSE [err |-> OK,
             cross |-> extenders[CHOOSE i \in hits : \A j \in hits : i <= j]]

\* getCrossExtendingRole that also reports an extender whose hierarchy shares a
\* role with the hierarchy of roleName
getCrossExtendingRole_shared(g, roleName, extenders) ==
    LET own == getRoleHierarchyOf(g, roleName, UNDEF, 0)
        hits == {i \in DOMAIN extenders :
                    LET h == getRoleHierarchyOf(g, extenders[i], UNDEF, 0)
                    IN /\ h.err = OK
                       /\ own.err = OK
                       /\ \E j \in DOMAIN h.list : indexOf(own.list, h.list[j])}
    IN IF hits = {} THEN [err |-> OK, cross |-> UNDEF]
       ELSE [err |-> OK,
             cross |-> extenders[CHOOSE i \in hits : \A j \in hits : i <= j]]

\* [err, cross]: cross is the first cross-inherited extender, or UNDEF (false)
RECURSIVE getCrossExtendingRole(_, _, _)
getCrossExtendingRole(g, roleName, extenders) ==
    IF extenders = <<>> THEN [err |-> OK, cross |-> UNDEF]
    ELSE LET e == Head(extenders) IN
        IF roleName = e THEN [err |-> OK, cross |-> UNDEF]
        ELSE LET inheritedByExtender == getRoleHierarchyOf(g, e, UNDEF, 0) IN
            IF inheritedByExtender.err # OK
                THEN [err |-> inheritedByExtender.err, cross |-> UNDEF]
            ELSE IF indexOf(inheritedByExtender.list, roleName)
                THEN [err |-> OK, cross |-> e]
            ELSE getCrossExtendingRole(g, roleName, Tail(extenders))

\* extendRole's test without the comparison
extendsItself_never(arrExtRoles, roleName) == FALSE

\* arrExtRoles.indexOf(roleName) >= 0
extendsItself(arrExtRoles, roleName) == indexOf(arrExtRoles, roleName)

\* the forEach over roles of extendRole; fz is the set of frozen objects
RECURSIVE extendEach(_, _, _, _)
extendEach(g, fz, roles, arrExtRoles) ==
    IF roles = <<>> THEN [grants |-> g, err |-> OK]
    ELSE LET roleName == Head(roles) IN
        IF ~hasOwnProperty(g, roleName) THEN [grants |-> g, err |-> "RoleNotFound"]
        ELSE IF extendsItself(arrExtRoles, roleName)
            THEN [grants |-> g, err |-> "SelfExtension"]
        ELSE LET crossInherited == getCrossExtendingRole(g, roleName, arrExtRoles) IN
            IF crossInherited.err # OK THEN [grants |-> g, err |-> crossInherited.err]
            ELSE IF crossInherited.cross # UNDEF
                THEN [grants |-> g, err |-> "CrossInheritance"]
            ELSE IF validName(roleName) # OK THEN [grants |-> g, err |-> validName(roleName)]
            ELSE IF <<roleName>> \in fz THEN [grants |-> g, err |-> "TypeError"]
            ELSE LET r == g[roleName]
                     r2 == [r EXCEPT !.hasExtend = TRUE,
                                     !.extend = IF r.hasExtend
                                                THEN uniqConcat(r.extend, arrExtRoles)
                                                ELSE arrExtRoles]
                 IN extendEach(SetProp(g, roleName, r2), fz, Tail(roles), arrExtRoles)

\* extendRole that checks its targets only and records the extenders as given
extendRole_unchecked(g, fz, roles, extenderRoles) ==
    IF Len(roles) = 0 THEN [grants |-> g, err |-> "InvalidRoleList"]
    ELSE IF isEmptyArray(extenderRoles) THEN [grants |-> g, err |-> OK]
    ELSE IF \E i \in DOMAIN roles : ~hasOwnProperty(g, roles[i])
        THEN [grants |-> g, err |-> "RoleNotFound"]
    ELSE [grants |-> [x \in DOMAIN g |->
                        IF indexOf(roles, x)
                        THEN [g[x] EXCEPT !.hasExtend = TRUE,
                                          !.extend = uniqConcat(extendOf(g[x]),
                                                                extenderRoles)]
                        ELSE g[x]],
          err |-> OK]

extendRole(g, fz, roles, extenderRoles) ==
    IF Len(roles) = 0 THEN [grants |-> g, err |-> "InvalidRoleList"]
    ELSE IF isEmptyArray(extenderRoles) THEN [grants |-> g, err |-> OK]
    ELSE IF Len(getNonExistentRoles(g, extenderRoles)) > 0
        THEN [grants |-> g, err |-> "RoleNotFound"]
    ELSE extendEach(g, fz, roles, extenderRoles)

\* preCreateEach without the hasOwnProperty test: every named role is set to {}
RECURSIVE preCreateEach_reset(_, _, _)
preCreateEach_reset(g, fz, roles) ==
    IF roles = <<>> THEN [grants |-> g, err |-> OK]
    ELSE LET role == Head(roles) IN
        IF validName(role) # OK THEN [grants |-> g, err |-> validName(role)]
        ELSE IF <<>> \in fz THEN [grants |-> g, err |-> "TypeError"]
        ELSE preCreateEach_reset(SetProp(g, role, EmptyRole), fz, Tail(roles))

\* the forEach of preCreateRoles
RECURSIVE preCreateEach(_, _, _)
preCreateEach(g, fz, roles) ==
    IF roles = <<>> THEN [grants |-> g, err |-> OK]
    ELSE LET role == Head(roles) IN
        IF validName(role) # OK THEN [grants |-> g, err |-> validName(role)]
        ELSE IF hasOwnProperty(g, role) THEN preCreateEach(g, fz, Tail(roles))
        ELSE IF <<>> \in fz THEN [grants |-> g, err |-> "TypeError"]
        ELSE preCreateEach(SetProp(g, role, EmptyRole), fz, Tail(roles))

preCreateRoles(g, fz, roles) ==
    IF Len(roles) = 0 THEN [grants |-> g, err |-> "InvalidRoleList"]
    ELSE preCreateEach(g, fz, roles)

(* ------------------------------ normalization -------------------------- *)

\* a value that `||` skips: undefined or the empty string
Falsy(s) == s \in {UNDEF, ""}

\* [err, action, possession]; action is given as its ':'-separated parts,
\* <<UNDEF>> when the property is not a string
normalizeActionPossession(action, possession) ==
    IF action = <<UNDEF>>
        THEN [err |-> "InvalidAction", action |-> action, possession |-> possession]
    ELSE LET s == action
             a == toLowerCase(trim(s[1]))
             poss == IF ~Falsy(possession) THEN possession
                     ELSE IF Len(s) >= 2 /\ ~Falsy(s[2]) THEN s[2]
                     ELSE UNDEF
         IN IF a \notin actions
                THEN [err |-> "InvalidAction", action |-> action, possession |-> possession]
            ELSE IF poss # UNDEF
                THEN IF toLowerCase(trim(poss)) \notin possessions
                        THEN [err |-> "InvalidPossession", action |-> <<a>>,
                              possession |-> possession]
                        ELSE [err |-> OK, action |-> <<a>>,
                              possession |-> toLowerCase(trim(poss))]
            ELSE [err |-> OK, action |-> <<a>>, possession |-> "any"]

\* normalizeAttributes without the test of the denied flag
normalizeAttributes_ignoreDenied(access) ==
    IF access.hasAttributes /\ Len(access.attributes) = 0 THEN <<>>
    ELSE IF ~access.hasAttributes THEN <<"*">>
    ELSE access.attributes

\* the attributes of a normalized IAccessInfo
normalizeAttributes(access) ==
    IF access.denied \/ (access.hasAttributes /\ Len(access.attributes) = 0) THEN <<>>
    ELSE IF ~access.hasAttributes THEN <<"*">>
    ELSE access.attributes

\* [err, info]: info is the normalized clone of access
normalizeAccessInfo(access, all) ==
    IF Len(access.role) = 0 \/ ~isFilledStringArray(access.role)
        THEN [err |-> "InvalidRoleList", info |-> access]
    ELSE IF Len(access.resource) = 0 \/ ~isFilledStringArray(access.resource)
        THEN [err |-> "InvalidResourceList", info |-> access]
    ELSE LET a1 == [access EXCEPT !.attributes = normalizeAttributes(access),
                                  !.hasAttributes = TRUE]
             ap == normalizeActionPossession(a1.action, a1.possession)
         IN IF ~all THEN [err |-> OK, info |-> a1]
            ELSE IF ap.err # OK THEN [err |-> ap.err, info |-> a1]
            ELSE [err |-> OK,
                  info |-> [a1 EXCEPT !.action = ap.action, !.possession = ap.possession]]

\* [err, info] for an IQueryInfo
normalizeQueryInfo(query) ==
    IF ~isFilledStringArray(query.role) THEN [err |-> "InvalidRoleList", info |-> query]
    ELSE IF trim(query.resource) = "" THEN [err |-> "InvalidResourceList", info |-> query]
    ELSE LET ap == normalizeActionPossession(query.action, query.possession) IN
        IF ap.err # OK THEN [err |-> ap.err, info |-> query]
        ELSE [err |-> OK,
              info |-> [query EXCEPT !.resource = trim(query.resource),
                                     !.action = ap.action,
                                     !.possession = ap.possession]]

(* ------------------------------ rule committer ------------------------- *)

\* commitResources that merges the attributes into the list the key holds
RECURSIVE commitResources_merge(_, _, _, _, _, _)
commitResources_merge(g, fz, role, resources, ap, attributes) ==
    IF resources = <<>> THEN [grants |-> g, err |-> OK]
    ELSE LET res == Head(resources)
             grantItem == g[role]
         IN IF validName(res) # OK THEN [grants |-> g, err |-> validName(res)]
            ELSE IF ~hasOwnProperty(grantItem.res, res) /\ <<role>> \in fz
                THEN [grants |-> g, err |-> "TypeError"]
            ELSE LET item1 == IF hasOwnProperty(grantItem.res, res) THEN grantItem
                              ELSE [grantItem EXCEPT
                                       !.res = SetProp(grantItem.res, res, EmptyObject)]
                     g1 == SetProp(g, role, item1)
                     prior == IF hasOwnProperty(item1.res[res], ap)
                              THEN item1.res[res][ap] ELSE <<>>
                 IN IF <<role, res>> \in fz THEN [grants |-> g1, err |-> "TypeError"]
                    ELSE LET item2 == [item1 EXCEPT !.res =
                                 SetProp(item1.res, res,
                                         SetProp(item1.res[res], ap,
                                                 uniqConcat(prior, attributes)))]
                         IN commitResources_merge(SetProp(g1, role, item2), fz, role,
                                                  Tail(resources), ap, attributes)

\* the inner forEach of commitToGrants, over the resources of one role
RECURSIVE commitResources(_, _, _, _, _, _)
commitResources(g, fz, role, resources, ap, attributes) ==
    IF resources = <<>> THEN [grants |-> g, err |-> OK]
    ELSE LET res == Head(resources)
             grantItem == g[role]
         IN IF validName(res) # OK THEN [grants |-> g, err |-> validName(res)]
            ELSE IF ~hasOwnProperty(grantItem.res, res) /\ <<role>> \in fz
                THEN [grants |-> g, err |-> "TypeError"]
            ELSE LET item1 == IF hasOwnProperty(grantItem.res, res) THEN grantItem
                              ELSE [grantItem EXCEPT
                                       !.res = SetProp(grantItem.res, res, EmptyObject)]
                     g1 == SetProp(g, role, item1)
                 IN IF <<role, res>> \in fz THEN [grants |-> g1, err |-> "TypeError"]
                    ELSE LET item2 == [item1 EXCEPT !.res =
                                 SetProp(item1.res, res,
                                         SetProp(item1.res[res], ap, attributes))]
                         IN commitResources(SetProp(g1, role, item2), fz, role,
                                            Tail(resources), ap, attributes)

\* commitRoles without the hasOwnProperty test: every named role starts from {}
RECURSIVE commitRoles_reset(_, _, _, _)
commitRoles_reset(g, fz, roles, info) ==
    IF roles = <<>> THEN [grants |-> g, err |-> OK]
    ELSE LET role == Head(roles) IN
        IF validName(role) # OK THEN [grants |-> g, err |-> validName(role)]
        ELSE IF <<>> \in fz THEN [grants |-> g, err |-> "TypeError"]
        ELSE LET g1 == SetProp(g, role, EmptyRole)
                 ap == info.action \o <<info.possession>>
                 r  == commitResources(g1, fz, role, info.resource, ap, info.attributes)
             IN IF r.err # OK THEN r
                ELSE commitRoles_reset(r.grants, fz, Tail(roles), info)

\* the outer forEach of commitToGrants, over the roles
RECURSIVE commitRoles(_, _, _, _)
commitRoles(g, fz, roles, info) ==
    IF roles = <<>> THEN [grants |-> g, err |-> OK]
    ELSE LET role == Head(roles) IN
        IF validName(role) # OK THEN [grants |-> g, err |-> validName(role)]
        ELSE IF ~hasOwnProperty(g, role) /\ <<>> \in fz
            THEN [grants |-> g, err |-> "TypeError"]
        ELSE LET g1 == IF hasOwnProperty(g, role) THEN g ELSE SetProp(g, role, EmptyRole)
                 ap == info.action \o <<info.possession>>
                 r  == commitResources(g1, fz, role, info.resource, ap, info.attributes)
             IN IF r.err # OK THEN r
                ELSE commitRoles(r.grants, fz, Tail(roles), info)

commitToGrants(g, fz, access, normalizeAll) ==
    LET accessInfo == normalizeAccessInfo(access, normalizeAll) IN
    IF accessInfo.err # OK THEN [grants |-> g, err |-> accessInfo.err]
    ELSE commitRoles(g, fz, accessInfo.info.role, accessInfo.info)

(* ------------------------------ grants inspection ---------------------- *)

\* the error validResourceObject throws for one key of a resource definition
\* and its value, or OK
resourceKeyError(action, perms) ==
    IF action[1] \notin actions THEN "InvalidAction"
    ELSE IF Len(action) >= 2 /\ action[2] # "" /\ action[2] \notin possessions
        THEN "InvalidPossession"
    ELSE IF ~isEmptyArray(perms) /\ ~isFilledStringArray(perms) THEN "InvalidAttributes"
    ELSE OK

\* validResourceObject(o): the error of the first key that has one, or OK
validResourceObject(o) ==
    LET bad == {action \in DOMAIN o : resourceKeyError(action, o[action]) # OK}
    IN IF bad = {} THEN OK
       ELSE LET action == CHOOSE k \in bad : TRUE IN resourceKeyError(action, o[action])

\* the eachKey of validRoleObject over the resource names in the sequence keys
RECURSIVE validResources(_, _)
validResources(role, keys) ==
    IF keys = <<>> THEN OK
    ELSE LET resourceName == Head(keys) IN
        IF validName(resourceName) # OK THEN "ReservedResourceName"
        ELSE IF validResourceObject(role.res[resourceName]) # OK
            THEN validResourceObject(role.res[resourceName])
        ELSE validResources(role, Tail(keys))

\* the keys of an object in the order Object.keys lists them: the names of
\* order that the object has
KeysIn(o, order) == SelectSeq(order, LAMBDA k : k \in DOMAIN o)

\* validRoleObject(grants, roleName), the $extend key being the first key of
\* the role: [grants, err]
validRoleObject(g, fz, roleName, resourceOrder) ==
    LET role == g[roleName]
        extended == IF ~role.hasExtend THEN [grants |-> g, err |-> OK]
                    ELSE IF ~isFilledStringArray(role.extend)
                        THEN [grants |-> g, err |-> "InvalidExtend"]
                    ELSE extendRole(g, fz, <<roleName>>, role.extend)
    IN IF extended.err # OK THEN extended
       ELSE [grants |-> extended.grants,
             err |-> validResources(extended.grants[roleName],
                                    KeysIn(role.res, resourceOrder))]

\* the eachKey of getInspectedGrants over the role names in the sequence keys
RECURSIVE inspectEach(_, _, _, _)
inspectEach(o, fz, keys, resourceOrder) ==
    IF keys = <<>> THEN [grants |-> o, err |-> OK]
    ELSE LET roleName == Head(keys) IN
        IF validName(roleName) # OK THEN [grants |-> o, err |-> validName(roleName)]
        ELSE LET r == validRoleObject(o, fz, roleName, resourceOrder) IN
            IF r.err # OK THEN r
            ELSE inspectEach(r.grants, fz, Tail(keys), resourceOrder)

\* getInspectedGrants(o) for an object o: [grants, err]
getInspectedGrants(o, fz, roleOrder, resourceOrder) ==
    inspectEach(o, fz, KeysIn(o, roleOrder), resourceOrder)

(* ------------------------------ query evaluator ------------------------ *)

\* Notation.Glob.union on lists of plain attribute names and '*'
GlobUnion(attrsA, attrsB) == uniqConcat(attrsA, attrsB)

\* attrsEach with a fallback in both directions: a query for "any" that finds
\* no key of its own takes the list stored for "own"
RECURSIVE attrsEach_bothWays(_, _, _, _)
attrsEach_bothWays(g, roles, query, attrsList) ==
    IF roles = <<>> THEN [err |-> OK, lists |-> attrsList]
    ELSE LET role == g[Head(roles)] IN
        IF ~hasOwnProperty(role.res, query.resource)
            THEN [err |-> "TypeError", lists |-> attrsList]
        ELSE LET resource == role.res[query.resource]
                 key == query.action \o <<query.possession>>
                 anyKey == query.action \o <<"any">>
                 ownKey == query.action \o <<"own">>
                 attrs == IF hasOwnProperty(resource, key) THEN resource[key]
                          ELSE IF hasOwnProperty(resource, anyKey) THEN resource[anyKey]
                          ELSE IF hasOwnProperty(resource, ownKey) THEN resource[ownKey]
                          ELSE <<>>
             IN attrsEach_bothWays(g, Tail(roles), query, Append(attrsList, attrs))

\* attrsEach that takes a stored empty list for a missing key
RECURSIVE attrsEach_emptyIsAbsent(_, _, _, _)
attrsEach_emptyIsAbsent(g, roles, query, attrsList) ==
    IF roles = <<>> THEN [err |-> OK, lists |-> attrsList]
    ELSE LET role == g[Head(roles)] IN
        IF ~hasOwnProperty(role.res, query.resource)
            THEN [err |-> "TypeError", lists |-> attrsList]
        ELSE LET resource == role.res[query.resource]
                 key == query.action \o <<query.possession>>
                 anyKey == query.action \o <<"any">>
                 attrs == IF hasOwnProperty(resource, key) /\ resource[key] # <<>>
                              THEN resource[key]
                          ELSE IF hasOwnProperty(resource, anyKey) THEN resource[anyKey]
                          ELSE <<>>
             IN attrsEach_emptyIsAbsent(g, Tail(roles), query, Append(attrsList, attrs))

\* the forEach of getUnionAttrsOfRoles: [err, lists], one list per role
RECURSIVE attrsEach(_, _, _, _)
attrsEach(g, roles, query, attrsList) ==
    IF roles = <<>> THEN [err |-> OK, lists |-> attrsList]
    ELSE LET role == g[Head(roles)] IN
        IF ~hasOwnProperty(role.res, query.resource)
            THEN [err |-> "TypeError", lists |-> attrsList]
        ELSE LET resource == role.res[query.resource]
                 key == query.action \o <<query.possession>>
                 anyKey == query.action \o <<"any">>
                 attrs == IF hasOwnProperty(resource, key) THEN resource[key]
                          ELSE IF hasOwnProperty(resource, anyKey) THEN resource[anyKey]
                          ELSE <<>>
             IN attrsEach(g, Tail(roles), query, Append(attrsList, attrs))

RECURSIVE unionAll(_, _)
unionAll(attrs, rest) ==
    IF rest = <<>> THEN attrs ELSE unionAll(GlobUnion(attrs, Head(rest)), Tail(rest))

\* [err, attrs]
getUnionAttrsOfRoles(g, query) ==
    LET q == normalizeQueryInfo(query) IN
    IF q.err # OK THEN [err |-> q.err, attrs |-> <<>>]
    ELSE LET roles == getFlatRoles(g, q.info.role) IN
        IF roles.err # OK THEN [err |-> roles.err, attrs |-> <<>>]
        ELSE LET l == attrsEach(g, roles.list, q.info, <<>>) IN
            IF l.err # OK THEN [err |-> l.err, attrs |-> <<>>]
            ELSE IF Len(l.lists) = 0 THEN [err |-> OK, attrs |-> <<>>]
            ELSE [err |-> OK, attrs |-> unionAll(Head(l.lists), Tail(l.lists))]

(* ------------------------------ lock manager --------------------------- *)

\* Object.freeze(o) without the descent into the properties
deepFreeze_shallow(g, fz) == fz \cup {<<>>}

\* the objects frozen after deepFreeze(grants)
deepFreeze(g, fz) == fz \cup ObjectsOf(g)

\* Object.isFrozen(grants)
isFrozen(fz) == <<>> \in fz

\* lockAC that refuses a grants model that is locked already
lockAC_once(g, fz, lk) ==
    IF Cardinality(DOMAIN g) = 0
        THEN [err |-> "EmptyOrInvalidGrants", frozen |-> fz, isLocked |-> lk]
    ELSE IF lk THEN [err |-> "Locked", frozen |-> fz, isLocked |-> lk]
    ELSE [err |-> OK, frozen |-> deepFreeze(g, fz), isLocked |-> TRUE]

\* lockAC without the test for an empty grants model
lockAC_anyTable(g, fz, lk) ==
    IF lk /\ isFrozen(fz) THEN [err |-> OK, frozen |-> fz, isLocked |-> TRUE]
    ELSE [err |-> OK, frozen |-> deepFreeze(g, fz), isLocked |-> TRUE]

\* lockAC without the assignment to _isLocked
lockAC_noFlag(g, fz, lk) ==
    IF Cardinality(DOMAIN g) = 0
        THEN [err |-> "EmptyOrInvalidGrants", frozen |-> fz, isLocked |-> lk]
    ELSE IF lk /\ isFrozen(fz) THEN [err |-> OK, frozen |-> fz, isLocked |-> lk]
    ELSE [err |-> OK, frozen |-> deepFreeze(g, fz), isLocked |-> lk]

\* [err, frozen, isLocked]
lockAC(g, fz, lk) ==
    IF Cardinality(DOMAIN g) = 0
        THEN [err |-> "EmptyOrInvalidGrants", frozen |-> fz, isLocked |-> lk]
    ELSE IF lk /\ isFrozen(fz) THEN [err |-> OK, frozen |-> fz, isLocked |-> TRUE]
    ELSE [err |-> OK, frozen |-> deepFreeze(g, fz), isLocked |-> TRUE]

\* the guard of the mutating entry points: ERR_LOCK once the instance is locked
guardLocked(lk, g, result) ==
    IF lk THEN [grants |-> g, err |-> "Locked"] ELSE result

(* ------------------------------ inputs --------------------------------- *)

RoleNames == {"a", "b", "c"}

\* names passed as roles: the role names and a reserved keyword
NameInputs == RoleNames \cup {"$"}

\* names passed as roles of a statement; "c" is a role no statement names
StatementRoles == {"a", "b", "$"}

ResourceNames == {"video"}

\* names passed as resources of a statement
ResourceInputs == ResourceNames \cup {"$"}

\* resources asked about: one that statements grant, one that nothing grants
QueryResources == ResourceNames \cup {"photo"}

\* the non-empty lists over S of at most n items
Lists(S, n) == UNION {[1..k -> S] : k \in 1..n}

AccessInfos ==
    [role : Lists(StatementRoles, MaxList),
     resource : Lists(ResourceInputs, MaxList),
     action : {<<"create">>},
     possession : {UNDEF},
     hasAttributes : {FALSE},
     attributes : {<<>>},
     denied : {FALSE}]

QueryInfos ==
    [role : Lists(RoleNames, MaxList),
     resource : QueryResources,
     action : {<<"create">>},
     possession : {"own", "any"}]

(* ------------------------------ state machine -------------------------- *)

Init ==
    /\ grants = EmptyObject
    /\ frozen = {}
    /\ isLocked = FALSE
    /\ last = [op |-> "init", err |-> OK, out |-> <<>>]

\* viaAC: the call enters through the AccessControl instance (guarded by the
\* lock) or calls the utils function directly
CallCommit(access, normalizeAll, viaAC) ==
    LET direct == commitToGrants(grants, frozen, access, normalizeAll)
        r == IF viaAC THEN guardLocked(isLocked, grants, direct) ELSE direct
    IN /\ grants' = r.grants
       /\ last' = [op |-> "commit", err |-> r.err, out |-> <<>>]
       /\ UNCHANGED <<frozen, isLocked>>

CallPreCreateRoles(roles, viaAC) ==
    LET direct == preCreateRoles(grants, frozen, roles)
        r == IF viaAC THEN guardLocked(isLocked, grants, direct) ELSE direct
    IN /\ grants' = r.grants
       /\ last' = [op |-> "preCreateRoles", err |-> r.err, out |-> <<>>]
       /\ UNCHANGED <<frozen, isLocked>>

CallExtendRole(roles, extenderRoles, viaAC) ==
    LET direct == extendRole(grants, frozen, roles, extenderRoles)
        r == IF viaAC THEN guardLocked(isLocked, grants, direct) ELSE direct
    IN /\ grants' = r.grants
       /\ last' = [op |-> "extendRole", err |-> r.err, out |-> <<>>]
       /\ UNCHANGED <<frozen, isLocked>>

CallLock ==
    LET r == lockAC(grants, frozen, isLocked)
    IN /\ frozen' = r.frozen
       /\ isLocked' = r.isLocked
       /\ last' = [op |-> "lock", err |-> r.err, out |-> <<>>]
       /\ UNCHANGED grants

\* an evaluation that creates the roles of the query it does not find
CallEvaluate_creating(query) ==
    LET r == getUnionAttrsOfRoles(grants, query)
    IN /\ last' = [op |-> "evaluate", err |-> r.err, out |-> r.attrs]
       /\ grants' = IF r.err = "RoleNotFound"
                     THEN preCreateRoles(grants, frozen, query.role).grants
                     ELSE grants
       /\ UNCHANGED <<frozen, isLocked>>

CallEvaluate(query) ==
    LET r == getUnionAttrsOfRoles(grants, query)
    IN /\ last' = [op |-> "evaluate", err |-> r.err, out |-> r.attrs]
       /\ UNCHANGED <<grants, frozen, isLocked>>

ExtenderLists == Lists(RoleNames, MaxList) \cup {<<>>}

\* the operations as an AccessControl instance exposes them
Next ==
    \/ \E access \in AccessInfos : CallCommit(access, TRUE, TRUE)
    \/ \E roles \in Lists(NameInputs, MaxList) : CallPreCreateRoles(roles, TRUE)
    \/ \E roles \in Lists(RoleNames, MaxList), extenderRoles \in ExtenderLists :
            CallExtendRole(roles, extenderRoles, TRUE)
    \/ CallLock
    \/ \E query \in QueryInfos : CallEvaluate(query)

Spec == Init /\ [][Next]_vars

\* the mutating utils functions called directly on the table, and lockAC
NextUtils ==
    \/ \E access \in AccessInfos : CallCommit(access, TRUE, FALSE)
    \/ \E roles \in Lists(NameInputs, MaxList) : CallPreCreateRoles(roles, FALSE)
    \/ \E roles \in Lists(RoleNames, MaxList), extenderRoles \in ExtenderLists :
            CallExtendRole(roles, extenderRoles, FALSE)
    \/ CallLock

SpecUtils == Init /\ [][NextUtils]_vars

\* names of every kind: valid ones, the reserved keywords, blank strings
BlankNames == {"", " "}

AnyRoleNames == {"a", "b"} \cup RESERVED_KEYWORDS \cup BlankNames

AnyResourceNames == ResourceNames \cup RESERVED_KEYWORDS \cup BlankNames

NamedAccessInfos ==
    [role : Lists(AnyRoleNames, MaxList),
     resource : Lists(AnyResourceNames, MaxList),
     action : {<<"create">>},
     possession : {UNDEF},
     hasAttributes : {FALSE},
     attributes : {<<>>},
     denied : {FALSE}]

\* the operations that create roles and resources, given names of every kind
NextNames ==
    \/ \E access \in NamedAccessInfos : CallCommit(access, TRUE, TRUE)
    \/ \E roles \in Lists(AnyRoleNames, MaxList) : CallPreCreateRoles(roles, TRUE)
    \/ \E roles \in Lists(AnyRoleNames, MaxList),
          extenderRoles \in Lists(AnyRoleNames, MaxList) :
            CallExtendRole(roles, extenderRoles, TRUE)

SpecNames == Init /\ [][NextNames]_vars

GrantRoles == {"a", "b"}

\* statements committed in validating mode: the action alone, the action
\* with its possession, in upper case, missing (undefined) and unknown; the
\* possession property omitted or given; attributes omitted or listed;
\* granted or denied
GrantAccessInfos ==
    [role : Lists(GrantRoles, MaxList),
     resource : {<<"video">>},
     action : {<<"create">>, <<"CREATE", "own">>, <<UNDEF>>, <<"fly">>},
     possession : {UNDEF, "own"},
     hasAttributes : {FALSE},
     attributes : {<<>>},
     denied : BOOLEAN]
    \cup
    [role : Lists(GrantRoles, MaxList),
     resource : {<<"video">>},
     action : {<<"create">>, <<"CREATE", "own">>, <<UNDEF>>, <<"fly">>},
     possession : {UNDEF, "own"},
     hasAttributes : {TRUE},
     attributes : {<<"title">>},
     denied : BOOLEAN]

\* statements committed as they are (normalizeAll = false)
RawAccessInfos ==
    [role : {<<"a">>},
     resource : {<<"video">>},
     action : {<<"create">>, <<UNDEF>>},
     possession : {UNDEF, "own"},
     hasAttributes : {FALSE},
     attributes : {<<>>},
     denied : {FALSE}]

\* queries about the roles and the resource of these statements
GrantQueryInfos ==
    [role : Lists(GrantRoles, MaxList),
     resource : {"video"},
     action : {<<"create">>},
     possession : {"own", "any"}]

\* commits of both modes, and queries
NextGrant ==
    \/ \E access \in GrantAccessInfos : CallCommit(access, TRUE, TRUE)
    \/ \E access \in RawAccessInfos : CallCommit(access, FALSE, TRUE)
    \/ \E query \in GrantQueryInfos : CallEvaluate(query)

SpecGrant == Init /\ [][NextGrant]_vars

\* the roles of a raw grants object, in the order of its keys
RawRoleOrder == <<"a", "b", "c", "d">>

RawRoleNames == {"a", "b", "c", "d"}

\* the names a raw $extend list may hold: the roles and a name of no role
RawExtenderNames == RawRoleNames \cup {"e"}

RawResourceOrder == <<"video">>

\* the $extend lists of at most n entries; <<>> stands for no $extend key
RawExtendLists(n) ==
    {l \in Lists(RawExtenderNames, MaxList) \cup {<<>>} : Len(l) <= n}

\* resource definitions of a raw role: none, a valid one, one with an unknown
\* action
RawResources ==
    { EmptyObject,
      [x \in {"video"} |-> [k \in {<<"create", "any">>} |-> <<"*">>]],
      [x \in {"video"} |-> [k \in {<<"fly", "any">>} |-> <<"*">>]] }

\* a raw role with the $extend list l and the resources res
RawRole(l, res) == [res |-> res, hasExtend |-> l # <<>>, extend |-> l]

\* a raw grants object as a caller hands it to the AccessControl constructor:
\* four roles, each with any $extend list, MaxEdges entries at most together
InitRaw ==
    /\ \E la \in RawExtendLists(MaxEdges) :
       \E lb \in RawExtendLists(MaxEdges - Len(la)) :
       \E lc \in RawExtendLists(MaxEdges - Len(la) - Len(lb)) :
       \E ld \in RawExtendLists(MaxEdges - Len(la) - Len(lb) - Len(lc)) :
       \E res \in RawResources :
          grants = [r \in RawRoleNames |->
                       CASE r = "a" -> RawRole(la, res)
                         [] r = "b" -> RawRole(lb, EmptyObject)
                         [] r = "c" -> RawRole(lc, EmptyObject)
                         [] OTHER   -> RawRole(ld, EmptyObject)]
    /\ frozen = {}
    /\ isLocked = FALSE
    /\ last = [op |-> "init", err |-> OK, out |-> <<>>]

CallInspect ==
    LET r == getInspectedGrants(grants, frozen, RawRoleOrder, RawResourceOrder)
    IN /\ grants' = r.grants
       /\ last' = [op |-> "inspect", err |-> r.err, out |-> <<>>]
       /\ UNCHANGED <<frozen, isLocked>>

CallResolve(roleName) ==
    LET r == getRoleHierarchyOf(grants, roleName, UNDEF, 0)
    IN /\ last' = [op |-> "resolve", err |-> r.err, out |-> r.list]
       /\ UNCHANGED <<grants, frozen, isLocked>>

\* a raw grants object is inspected, and its roles resolved
NextRaw ==
    \/ CallInspect
    \/ \E roleName \in RawExtenderNames : CallResolve(roleName)

SpecRaw == InitRaw /\ [][NextRaw]_vars

(* ------------------------------ properties ----------------------------- *)

MutatingOps == {"commit", "preCreateRoles", "extendRole"}

\* the roles r names in its $extend list
Extenders(g, r) ==
    IF hasOwnProperty(g, r) THEN {g[r].extend[i] : i \in DOMAIN extendOf(g[r])} ELSE {}

RECURSIVE Closure(_, _)
Closure(g, S) ==
    LET T == S \cup UNION {Extenders(g, r) : r \in S}
    IN IF T = S THEN S ELSE Closure(g, T)

\* the roles r reaches by one or more extends edges
Inherited(g, r) == Closure(g, Extenders(g, r))

\* the items of a list
Items(l) == {l[i] : i \in DOMAIN l}

\* C1: in every reachable state the inheritance relation is acyclic: no role
\* reaches itself by following one or more extends edges.
C1_Acyclic == \A r \in DOMAIN grants : r \notin Inherited(grants, r)

\* a successful extendRole has built a chain of two extends edges
C1_Witness ==
    /\ last.op = "extendRole" /\ last.err = OK
    /\ \E r \in DOMAIN grants : \E s \in Extenders(grants, r) :
          Extenders(grants, s) # {}

\* C2: lock is one-way: a successful lock sets the locked flag and freezes the
\* table, and from a locked state every call leaves the flag set and the
\* grants table as it was.
C2_LockOneWay ==
    [][/\ (last'.op = "lock" /\ last'.err = OK) => (isLocked' /\ isFrozen(frozen'))
       /\ isLocked => (isLocked' /\ grants' = grants)]_vars

\* a mutating call has been made on a locked table that holds a resource rule
C2_Witness ==
    /\ isLocked
    /\ last.op \in MutatingOps
    /\ \E r \in DOMAIN grants : DOMAIN grants[r].res # {}

C4_FailedCommitWritesNothing ==
    [][(last'.op = "commit" /\ last'.err # OK) => grants' = grants]_vars

\* the $extend key of every role of g is the same in h
SameExtends(g, h) ==
    \A r \in DOMAIN g :
        /\ hasOwnProperty(h, r)
        /\ h[r].hasExtend = g[r].hasExtend
        /\ h[r].extend = g[r].extend

\* C5: an extendRole call that fails leaves the extends list of every role as
\* it was, the targets listed before the offending one included.
C5_FailedExtendWritesNothing ==
    [][(last'.op = "extendRole" /\ last'.err # OK) => SameExtends(grants, grants')]_vars

\* extendRole(table, roles, E) called on the instance in the current state
ExtendResult(roles, E) ==
    guardLocked(isLocked, grants, extendRole(grants, frozen, roles, E))

\* C6 as claimed: when A already extends B directly or transitively,
\* extendRole(table, B, E) with A in E, on an unlocked table, fails with CrossInheritance and adds no
\* extends edge to B.
C6_CrossAlwaysCrossInheritance ==
    \A A \in DOMAIN grants : \A B \in Inherited(grants, A) :
        \A E \in Lists(RoleNames, MaxList) :
            (~isLocked /\ A \in Items(E)) =>
                LET r == ExtendResult(<<B>>, E)
                IN r.err = "CrossInheritance" /\ SameExtends(grants, r.grants)

\* the error extendRole reports first for a single target B and extenders E
FirstExtendError(B, E, otherwise) ==
    IF isLocked THEN "Locked"
    ELSE IF \E e \in Items(E) : ~hasOwnProperty(grants, e) THEN "RoleNotFound"
    ELSE IF B \in Items(E) THEN "SelfExtension"
    ELSE otherwise

\* C6 amended: when A already extends B directly or transitively,
\* extendRole(table, B, E) with A in E fails and adds no extends edge; the
\* error is Locked on a locked table, else RoleNotFound when a member of E is
\* absent, else SelfExtension when B is in E, else CrossInheritance.
C6_CrossRejected ==
    \A A \in DOMAIN grants : \A B \in Inherited(grants, A) :
        \A E \in Lists(RoleNames, MaxList) :
            A \in Items(E) =>
                LET r == ExtendResult(<<B>>, E)
                IN /\ r.err = FirstExtendError(B, E, "CrossInheritance")
                   /\ SameExtends(grants, r.grants)

\* extendRole has failed with CrossInheritance where a role inherits another
\* through an intermediate role only
C6_Witness ==
    /\ last.op = "extendRole" /\ last.err = "CrossInheritance"
    /\ \E A \in DOMAIN grants :
          Inherited(grants, A) \ Extenders(grants, A) # {}

\* the table g with the $extend list of role A set to L
WithExtend(g, A, L) == SetProp(g, A, [g[A] EXCEPT !.hasExtend = TRUE, !.extend = L])

\* no role names itself in its $extend list
NoSelfExtension == \A r \in DOMAIN grants : r \notin Extenders(grants, r)

\* C7 as claimed: extendRole(table, A, E) on an unlocked table, A being one of
\* its roles, fails with SelfExtension whenever A is in E, resolveHierarchy of a role whose extends list contains its own name
\* fails with SelfExtension, and no reachable extends list contains its owner.
C7_SelfAlwaysSelfExtension ==
    /\ \A A \in DOMAIN grants : \A E \in Lists(RoleNames, MaxList) :
          (~isLocked /\ A \in Items(E)) => ExtendResult(<<A>>, E).err = "SelfExtension"
    /\ \A A \in DOMAIN grants : \A L \in Lists(RoleNames, MaxList) :
          A \in Items(L) =>
              getRoleHierarchyOf(WithExtend(grants, A, L), A, UNDEF, 0).err
                  = "SelfExtension"
    /\ NoSelfExtension

\* C7 amended: extendRole(table, A, E) with A in E fails and writes nothing,
\* with Locked on a locked table, else RoleNotFound when a member of E is
\* absent, else SelfExtension; resolveHierarchy of a role whose extends list
\* contains its own name fails, with SelfExtension when its own name comes
\* first in the list; no reachable extends list contains its owner.
C7_SelfRejected ==
    /\ \A A \in RoleNames : \A E \in Lists(RoleNames, MaxList) :
          A \in Items(E) =>
              LET r == ExtendResult(<<A>>, E)
              IN /\ r.err = FirstExtendError(A, E, "SelfExtension")
                 /\ r.err # OK
                 /\ r.grants = grants
    /\ \A A \in DOMAIN grants : \A L \in Lists(RoleNames, MaxList) :
          A \in Items(L) =>
              LET h == getRoleHierarchyOf(WithExtend(grants, A, L), A, UNDEF, 0)
              IN h.err # OK /\ (L[1] = A => h.err = "SelfExtension")
    /\ NoSelfExtension

\* extendRole has failed with SelfExtension on a table with an extends edge
C7_Witness ==
    /\ last.op = "extendRole" /\ last.err = "SelfExtension"
    /\ \E r \in DOMAIN grants : Extenders(grants, r) # {}

\* the attribute list a role contributes to a normalized query (spec 4.4, 3)
Contribution(g, r, q) ==
    IF ~hasOwnProperty(g[r].res, q.resource) THEN <<>>
    ELSE LET entry == g[r].res[q.resource]
             key == q.action \o <<q.possession>>
             anyKey == q.action \o <<"any">>
         IN IF key \in DOMAIN entry THEN entry[key]
            ELSE IF q.possession = "own" /\ anyKey \in DOMAIN entry THEN entry[anyKey]
            ELSE <<>>

\* evaluate returns a non-empty attribute list
Granted(q) ==
    LET e == getUnionAttrsOfRoles(grants, q) IN e.err = OK /\ e.attrs # <<>>

\* the query for one role
QueryOf(r, resource, possession) ==
    [role |-> <<r>>, resource |-> resource, action |-> <<"create">>,
     possession |-> possession]

\* C8: a role of the flattened set without an entry for the queried resource
\* contributes the empty list and evaluate raises no error; evaluating roles
\* that have no resource at all returns the empty list.
C8_MissingResourceIsEmpty ==
    \A q \in QueryInfos :
        LET f == getFlatRoles(grants, q.role) IN
        (/\ f.err = OK
         /\ \E r \in Items(f.list) : ~hasOwnProperty(grants[r].res, q.resource))
        => LET e == getUnionAttrsOfRoles(grants, q)
           IN /\ e.err = OK
              /\ (\A r \in Items(f.list) : DOMAIN grants[r].res = {}) => e.attrs = <<>>

\* C9: when A extends B directly or transitively and evaluate for B alone is
\* granted, evaluate for A alone is granted, whatever entries A itself has.
C9_InheritanceCarriesGrants ==
    \A A \in DOMAIN grants : \A B \in Inherited(grants, A) :
        \A resource \in QueryResources, possession \in possessions :
            Granted(QueryOf(B, resource, possession))
                => Granted(QueryOf(A, resource, possession))

\* C10: evaluate is granted if and only if at least one role of the flattened
\* set contributes a non-empty attribute list.
C10_RolesAreORed ==
    \A q \in QueryInfos :
        LET f == getFlatRoles(grants, q.role) IN
        f.err = OK =>
            (Granted(q) <=> \E r \in Items(f.list) : Contribution(grants, r, q) # <<>>)

\* a name that is neither a reserved keyword nor empty nor made of blanks
StorableName(n) == n \notin {"*", "!", "$", "$extend", "", " "}

\* C12: in every state reachable from the empty table by commit,
\* preCreateRoles and extendRole calls, successful or failed, no role name and
\* no resource name stored in the table is a reserved keyword or an empty or
\* whitespace-only string.
C12_StoredNamesValid ==
    \A r \in DOMAIN grants :
        /\ StorableName(r)
        /\ \A x \in DOMAIN grants[r].res : StorableName(x)

\* a call has been rejected for a name, on a table that stores a role with a
\* resource and a role with an extends list
C12_Witness ==
    /\ last.err = "InvalidName"
    /\ \E r \in DOMAIN grants : DOMAIN grants[r].res # {}
    /\ \E r \in DOMAIN grants : Extenders(grants, r) # {}

\* the statements of AccessInfos that name valid roles and resources only
ValidAccessInfos ==
    {access \in AccessInfos :
        /\ Items(access.role) \subseteq RoleNames
        /\ Items(access.resource) \subseteq ResourceNames}

\* C15: lock on a table with zero roles fails with EmptyOrInvalidGrants and
\* leaves the locked flag unset and the table mutable (a commit made next
\* succeeds and writes its statement); lock on a table with at least one role
\* succeeds and sets the locked flag.
C15_LockNeedsRoles ==
    [][last'.op = "lock" =>
        IF DOMAIN grants = {}
        THEN /\ last'.err = "EmptyOrInvalidGrants"
             /\ ~isLocked'
             /\ frozen' = {}
             /\ \A access \in ValidAccessInfos :
                   LET r == guardLocked(isLocked', grants',
                                commitToGrants(grants', frozen', access, TRUE))
                   IN /\ r.err = OK
                      /\ Items(access.role) \subseteq DOMAIN r.grants
        ELSE last'.err = OK /\ isLocked']_vars

\* lock has failed on the empty table, which is still unlocked
C15_Witness ==
    /\ last.op = "lock" /\ last.err = "EmptyOrInvalidGrants"
    /\ DOMAIN grants = {}
    /\ ~isLocked

\* every role of the table g resolves without error
AllResolve(g) ==
    \A x \in DOMAIN g : getRoleHierarchyOf(g, x, UNDEF, 0).err = OK

\* C19: extendRole rejects only self-extension and cross-inheritance: on an
\* unlocked table, whenever every target and every extender exists, no target
\* is among the extenders and no extender directly or transitively extends a
\* target, extendRole succeeds and every target names every extender; the
\* resulting table, diamond inheritance included, resolves without error.
C19_OnlySelfAndCrossRejected ==
    \A T \in Lists(RoleNames, MaxList), E \in Lists(RoleNames, MaxList) :
        (/\ ~isLocked
         /\ Items(T) \cup Items(E) \subseteq DOMAIN grants
         /\ Items(T) \cap Items(E) = {}
         /\ \A e \in Items(E), t \in Items(T) : t \notin Inherited(grants, e))
        => LET r == ExtendResult(T, E)
           IN /\ r.err = OK
              /\ \A t \in Items(T) : Items(E) \subseteq Extenders(r.grants, t)
              /\ AllResolve(r.grants)

\* a successful extendRole has left a role that reaches another role along two
\* paths: directly and through a second extender
C19_Witness ==
    /\ last.op = "extendRole" /\ last.err = OK
    /\ \E r \in DOMAIN grants : \E s1, s2 \in Extenders(grants, r) :
          /\ s1 # s2
          /\ s2 \in Extenders(grants, s1)
    /\ AllResolve(grants)

\* the list prior followed by the members of E it does not hold yet, in their
\* order in E
RECURSIVE MergedExtends(_, _)
MergedExtends(prior, E) ==
    IF E = <<>> THEN prior
    ELSE MergedExtends(IF Head(E) \in Items(prior) THEN prior
                       ELSE Append(prior, Head(E)),
                       Tail(E))

\* no item occurs twice in the list l
NoDuplicate(l) == \A i, j \in DOMAIN l : l[i] = l[j] => i = j

\* C20: after a successful extendRole(table, r, E), the extends list of r is
\* its prior list (empty if it had none) followed by the members of E not
\* already present, in their order in E, and holds no role name twice, for
\* every E, one that names the same extender more than once included.
C20_ExtendsMergedWithoutDuplicates ==
    \A r \in DOMAIN grants : \A E \in Lists(RoleNames, MaxList) :
        LET res == ExtendResult(<<r>>, E)
        IN res.err = OK =>
            /\ res.grants[r].extend = MergedExtends(extendOf(grants[r]), E)
            /\ NoDuplicate(res.grants[r].extend)

\* the outcome of a walk that makes finitely many calls: a result or a thrown
\* error other than the exhaustion of the call stack
Terminates(result) == result.err # "RangeError"

\* C17: for every table reachable from the empty table by commit,
\* preCreateRoles, extendRole and lock calls, resolveHierarchy, flattenRoles
\* and evaluate terminate for every role of the table: the nested calls of the
\* walk over extends edges never outnumber the roles.
C17_WalksTerminate ==
    \A r \in DOMAIN grants :
        /\ Terminates(getRoleHierarchyOf(grants, r, UNDEF, 0))
        /\ \A roles \in Lists(DOMAIN grants, MaxList) :
              r \in Items(roles) => Terminates(getFlatRoles(grants, roles))
        /\ \A q \in QueryInfos :
              (r \in Items(q.role) /\ Items(q.role) \subseteq DOMAIN grants)
                  => Terminates(getUnionAttrsOfRoles(grants, q))

\* evaluate has returned on a locked table in which a role reaches another
\* through an intermediate role
C17_Witness ==
    /\ last.op = "evaluate" /\ last.err = OK
    /\ isLocked
    /\ \E r \in DOMAIN grants :
          Inherited(grants, r) \ Extenders(grants, r) # {}

\* the keys of an action in a resource entry
OwnKey == <<"create", "own">>

AnyKey == <<"create", "any">>

\* the result of evaluate for the roles R, the resource and the possession
EvaluateFor(R, resource, possession) ==
    getUnionAttrsOfRoles(grants, [role |-> R, resource |-> resource,
                                  action |-> <<"create">>, possession |-> possession])

\* C11: the possession fallback is one-directional: when the resource entry of
\* every queried role has create:any but no create:own, the own query returns
\* the attribute list the any query returns (the stored create:any list, for
\* one role); when every entry has create:own but no create:any, the any query
\* returns the empty list.
C11_FallbackOneDirectional ==
    \A R \in Lists(GrantRoles, MaxList) : \A resource \in ResourceNames :
        LET f == getFlatRoles(grants, R)
            own == EvaluateFor(R, resource, "own")
            any == EvaluateFor(R, resource, "any")
        IN (/\ f.err = OK
            /\ \A r \in Items(f.list) : hasOwnProperty(grants[r].res, resource))
           => /\ (\A r \in Items(f.list) :
                     /\ AnyKey \in DOMAIN grants[r].res[resource]
                     /\ OwnKey \notin DOMAIN grants[r].res[resource])
                 => /\ own.err = OK /\ any.err = OK
                    /\ own.attrs = any.attrs
                    /\ Len(f.list) = 1
                          => own.attrs = grants[f.list[1]].res[resource][AnyKey]
              /\ (\A r \in Items(f.list) :
                     /\ OwnKey \in DOMAIN grants[r].res[resource]
                     /\ AnyKey \notin DOMAIN grants[r].res[resource])
                 => any.err = OK /\ any.attrs = <<>>

\* evaluate has returned attributes on a table where one role holds a
\* non-empty create:any list and no create:own, and another role a non-empty
\* create:own list and no create:any
C11_Witness ==
    /\ last.op = "evaluate" /\ last.err = OK /\ last.out # <<>>
    /\ \E r, s \in DOMAIN grants :
          /\ hasOwnProperty(grants[r].res, "video")
          /\ hasOwnProperty(grants[s].res, "video")
          /\ AnyKey \in DOMAIN grants[r].res["video"]
          /\ OwnKey \notin DOMAIN grants[r].res["video"]
          /\ grants[r].res["video"][AnyKey] # <<>>
          /\ OwnKey \in DOMAIN grants[s].res["video"]
          /\ AnyKey \notin DOMAIN grants[s].res["video"]
          /\ grants[s].res["video"][OwnKey] # <<>>

\* a key of the form action:possession, both taken from their sets
WellFormedKey(k) ==
    /\ Len(k) = 2
    /\ k[1] \in {"create", "read", "update", "delete"}
    /\ k[2] \in {"own", "any"}

\* the action of the statement is missing or names no action of the set
NoKnownAction(access) ==
    \/ access.action = <<UNDEF>>
    \/ access.action[1] \notin {"create", "read", "update", "delete", "CREATE"}

\* C13: in every state reachable by commit calls, with normalizeAll true or
\* false, every key of every resource entry has the form action:possession
\* with the action in {create, read, update, delete} and the possession in
\* {own, any}; a statement whose action is missing or not in the action set is
\* rejected and writes no key.
C13_KeysWellFormed ==
    /\ \A r \in DOMAIN grants : \A x \in DOMAIN grants[r].res :
          \A k \in DOMAIN grants[r].res[x] : WellFormedKey(k)
    /\ \A normalizeAll \in BOOLEAN :
          \A access \in GrantAccessInfos \cup RawAccessInfos :
              NoKnownAction(access) =>
                  LET r == commitToGrants(grants, frozen, access, normalizeAll)
                  IN r.err # OK /\ r.grants = grants

\* the commit calls of both modes: a statement and its normalizeAll
GrantCalls ==
    (GrantAccessInfos \X {TRUE}) \cup (RawAccessInfos \X {FALSE})

\* the attribute list a statement asks for: none when denied, every
\* attribute when it lists none
StatementAttributes(access) ==
    IF access.denied THEN <<>>
    ELSE IF access.hasAttributes THEN access.attributes
    ELSE <<"*">>

\* the action:possession key of a statement after normalization
StatementKey(access, normalizeAll) ==
    LET info == normalizeAccessInfo(access, normalizeAll).info
    IN info.action \o <<info.possession>>

\* C14: last write wins: after a successful commit, for every role and
\* resource named in the statement the entry's action:possession key holds
\* exactly the statement's normalized attribute list, whatever the key held
\* before; committing the same statement again leaves the table as the first
\* commit left it.
C14_LastWriteWins ==
    \A c \in GrantCalls :
        LET access == c[1]
            once == commitToGrants(grants, frozen, access, c[2])
            twice == commitToGrants(once.grants, frozen, access, c[2])
        IN once.err = OK =>
            /\ \A role \in Items(access.role), res \in Items(access.resource) :
                  /\ hasOwnProperty(once.grants, role)
                  /\ hasOwnProperty(once.grants[role].res, res)
                  /\ StatementKey(access, c[2]) \in DOMAIN once.grants[role].res[res]
                  /\ once.grants[role].res[res][StatementKey(access, c[2])]
                        = StatementAttributes(access)
            /\ twice.err = OK
            /\ twice.grants = once.grants

\* a commit has succeeded on a table where a statement would replace a
\* non-empty attribute list by a different non-empty one
C14_Witness ==
    /\ last.op = "commit" /\ last.err = OK
    /\ \E c \in GrantCalls : \E role \in Items(c[1].role) :
          /\ normalizeAccessInfo(c[1], c[2]).err = OK
          /\ hasOwnProperty(grants, role)
          /\ hasOwnProperty(grants[role].res, "video")
          /\ StatementKey(c[1], c[2]) \in DOMAIN grants[role].res["video"]
          /\ grants[role].res["video"][StatementKey(c[1], c[2])] # <<>>
          /\ StatementAttributes(c[1]) # <<>>
          /\ grants[role].res["video"][StatementKey(c[1], c[2])]
                # StatementAttributes(c[1])

\* the extends relation of g has a cycle, of any length
Cyclic(g) == \E r \in DOMAIN g : r \in Inherited(g, r)

\* every $extend list of g names roles of g only
NoDangling(g) == \A r \in DOMAIN g : Extenders(g, r) \subseteq DOMAIN g

\* every resource definition of g is valid
ResourcesValid(g) ==
    \A r \in DOMAIN g : \A x \in DOMAIN g[r].res :
        validName(x) = OK /\ validResourceObject(g[r].res[x]) = OK

\* C18: validateGrantsStructure applied to a raw role mapping whose extends
\* relation contains a cycle of any length, anywhere in the graph, and that
\* has no other defect, terminates and fails with SelfExtension or
\* CrossInheritance; it never returns a mapping with a cyclic inheritance
\* relation as a valid table.
C18_CyclicRawRejected ==
    (Cyclic(grants) /\ NoDangling(grants) /\ ResourcesValid(grants))
        => getInspectedGrants(grants, frozen, RawRoleOrder, RawResourceOrder).err
              \in {"SelfExtension", "CrossInheritance"}

\* C16: for every table in which every referenced extender exists and the
\* inheritance graph is acyclic, resolveHierarchy(table, r) returns a list
\* whose first element is r, that holds no role twice, and whose elements are
\* exactly r and the roles reachable from r along extends edges; for a role
\* with no extends it is [r], and for A.extends = [B], B.extends = [C] it is
\* [A, B, C].
C16_HierarchyIsClosure ==
    (NoDangling(grants) /\ ~Cyclic(grants)) =>
        /\ \A r \in DOMAIN grants :
              LET h == getRoleHierarchyOf(grants, r, UNDEF, 0)
              IN /\ h.err = OK
                 /\ h.list[1] = r
                 /\ NoDuplicate(h.list)
                 /\ Items(h.list) = {r} \cup Inherited(grants, r)
                 /\ Extenders(grants, r) = {} => h.list = <<r>>
        /\ \A A, B, C \in DOMAIN grants :
              (/\ extendOf(grants[A]) = <<B>>
               /\ extendOf(grants[B]) = <<C>>
               /\ extendOf(grants[C]) = <<>>)
              => getRoleHierarchyOf(grants, A, UNDEF, 0).list = <<A, B, C>>

\* a role of an acyclic table has been resolved to all four roles, one of
\* which it reaches through two different extenders
C16_Witness ==
    /\ last.op = "resolve" /\ last.err = OK /\ Len(last.out) = 4
    /\ NoDangling(grants) /\ ~Cyclic(grants)
    /\ \E s1, s2 \in Extenders(grants, last.out[1]) :
          /\ s1 # s2
          /\ Inherited(grants, s1) \cap Inherited(grants, s2) # {}

\* target lists over a role of the raw table and the name of no role;
\* extender lists over the same names, a second role alone, and the empty list
RawTargetLists == Lists({"a", "e"}, MaxList)

RawExtenderLists == Lists({"a", "e"}, MaxList) \cup {<<"b">>, <<>>}

\* the resolver calls name an absent role, or reach one along extends edges,
\* on a table without an inheritance cycle: each fails with RoleNotFound
ResolversReportRoleNotFound ==
    ~Cyclic(grants) =>
        /\ \A r \in RawExtenderNames :
              (r \notin DOMAIN grants \/ ~(Inherited(grants, r) \subseteq DOMAIN grants))
                  => getRoleHierarchyOf(grants, r, UNDEF, 0).err = "RoleNotFound"
        /\ \A R \in Lists(RawExtenderNames, MaxList) :
              (\E r \in Items(R) :
                    r \notin DOMAIN grants \/ ~(Inherited(grants, r) \subseteq DOMAIN grants))
              => /\ getFlatRoles(grants, R).err = "RoleNotFound"
                 /\ getUnionAttrsOfRoles(grants,
                        [role |-> R, resource |-> "video", action |-> <<"create">>,
                         possession |-> "any"]).err = "RoleNotFound"

C22_DeniedStoresEmpty ==
    \A c \in GrantCalls :
        LET access == c[1]
            key == StatementKey(access, c[2])
            once == commitToGrants(grants, frozen, access, c[2])
        IN once.err = OK =>
            \A role \in Items(access.role), res \in Items(access.resource) :
                /\ access.denied =>
                      /\ once.grants[role].res[res][key] = <<>>
                      /\ Extenders(once.grants, role) = {}
                      /\ WellFormedKey(key) =>
                            LET e == getUnionAttrsOfRoles(once.grants,
                                        [role |-> <<role>>, resource |-> res,
                                         action |-> <<key[1]>>, possession |-> key[2]])
                            IN e.err = OK /\ e.attrs = <<>>
                /\ (~access.denied /\ ~access.hasAttributes) =>
                      once.grants[role].res[res][key] = <<"*">>

\* a commit has succeeded on a table that holds an empty list under one key
\* and a non-empty list under a key that a denied statement listing attributes
\* names
C22_Witness ==
    /\ last.op = "commit" /\ last.err = OK
    /\ \E r \in DOMAIN grants : \E x \in DOMAIN grants[r].res :
          \E k \in DOMAIN grants[r].res[x] : grants[r].res[x][k] = <<>>
    /\ \E access \in GrantAccessInfos : \E role \in Items(access.role) :
          /\ access.denied /\ access.hasAttributes
          /\ normalizeAccessInfo(access, TRUE).err = OK
          /\ hasOwnProperty(grants, role)
          /\ hasOwnProperty(grants[role].res, "video")
          /\ StatementKey(access, TRUE) \in DOMAIN grants[role].res["video"]
          /\ grants[role].res["video"][StatementKey(access, TRUE)] # <<>>

\* C23: lock is idempotent: lock on an already locked table succeeds without
\* error and leaves the set of frozen objects and the locked flag as the first
\* lock left them (lock never writes to the table).
C23_LockIdempotent ==
    isLocked =>
        LET again == lockAC(grants, frozen, isLocked)
        IN /\ again.err = OK
           /\ again.isLocked
           /\ again.frozen = frozen
           /\ frozen = ObjectsOf(grants)

\* lock has succeeded on a table with two roles, a resource rule and an
\* extends list
C23_Witness ==
    /\ isLocked /\ last.op = "lock" /\ last.err = OK
    /\ \E r \in DOMAIN grants : DOMAIN grants[r].res # {}
    /\ \E r \in DOMAIN grants : Extenders(grants, r) # {}

\* C24: after a successful preCreateRoles(table, roles) on an unlocked table,
\* every named role exists; each role that did not exist before has an entry
\* with no resource and no extends list, each role that existed keeps its
\* entry (resources, rules and extends list) unchanged, and no other role
\* appears.
C24_PreCreateFrame ==
    \A roles \in Lists(NameInputs, MaxList) :
        LET r == guardLocked(isLocked, grants, preCreateRoles(grants, frozen, roles))
        IN (~isLocked /\ r.err = OK) =>
            /\ DOMAIN r.grants = DOMAIN grants \cup Items(roles)
            /\ \A x \in DOMAIN r.grants :
                  IF x \in DOMAIN grants THEN r.grants[x] = grants[x]
                  ELSE /\ DOMAIN r.grants[x].res = {}
                       /\ ~r.grants[x].hasExtend

\* preCreateRoles has succeeded on an unlocked table that holds a role
\* without any key beside a role with a resource rule and an extends list
C24_Witness ==
    /\ last.op = "preCreateRoles" /\ last.err = OK /\ ~isLocked
    /\ \E x \in DOMAIN grants :
          DOMAIN grants[x].res = {} /\ ~grants[x].hasExtend
    /\ \E x \in DOMAIN grants :
          DOMAIN grants[x].res # {} /\ Extenders(grants, x) # {}

\* the resource entry of role r holds [] under create:own and a non-empty
\* list under create:any
EmptyOwnBesideAny(r, resource) ==
    /\ hasOwnProperty(grants[r].res, resource)
    /\ OwnKey \in DOMAIN grants[r].res[resource]
    /\ AnyKey \in DOMAIN grants[r].res[resource]
    /\ grants[r].res[resource][OwnKey] = <<>>
    /\ grants[r].res[resource][AnyKey] # <<>>

\* C25: an explicitly stored empty list is not an absent key: for a role (with
\* no extends list) whose resource entry has create:own = [] and create:any
\* non-empty, the own query on that role alone returns the empty list, with no
\* fallback to the any grant, and the any query returns the any grant.
C25_StoredEmptyBlocksFallback ==
    \A r \in DOMAIN grants : \A resource \in ResourceNames :
        (EmptyOwnBesideAny(r, resource) /\ Extenders(grants, r) = {}) =>
            LET own == EvaluateFor(<<r>>, resource, "own")
                any == EvaluateFor(<<r>>, resource, "any")
            IN /\ own.err = OK /\ own.attrs = <<>>
               /\ any.err = OK /\ any.attrs = grants[r].res[resource][AnyKey]

\* evaluate has returned the empty list on a table where a role holds [] under
\* create:own beside a non-empty create:any
C25_Witness ==
    /\ last.op = "evaluate" /\ last.err = OK /\ last.out = <<>>
    /\ \E r \in DOMAIN grants : EmptyOwnBesideAny(r, "video")

\* C26: in every state reachable from the empty table by commit,
\* preCreateRoles, extendRole and lock calls, every role name in a role's
\* extends list is a role of the table: no call removes a role or records a
\* dangling extender, so resolveHierarchy on a role of the table never fails
\* with RoleNotFound.
C26_NoDanglingExtender ==
    [][/\ DOMAIN grants \subseteq DOMAIN grants'
       /\ NoDangling(grants')
       /\ \A r \in DOMAIN grants' :
             getRoleHierarchyOf(grants', r, UNDEF, 0).err # "RoleNotFound"]_vars

\* extendRole has been rejected with RoleNotFound on a table that lacks a
\* role and holds an extends list
C26_Witness ==
    /\ last.op = "extendRole" /\ last.err = "RoleNotFound"
    /\ DOMAIN grants # RoleNames
    /\ \E r \in DOMAIN grants : Extenders(grants, r) # {}

\* statements about two roles and two resources, for either key of create,
\* granting every attribute, one attribute or none
FrameAccessInfos ==
    [role : Lists({"a", "b"}, MaxList),
     resource : Lists({"video", "photo"}, MaxList),
     action : {<<"create">>, <<"create", "own">>},
     possession : {UNDEF},
     hasAttributes : {FALSE},
     attributes : {<<>>},
     denied : BOOLEAN]
    \cup
    [role : Lists({"a", "b"}, MaxList),
     resource : Lists({"video", "photo"}, MaxList),
     action : {<<"create">>, <<"create", "own">>},
     possession : {UNDEF},
     hasAttributes : {TRUE},
     attributes : {<<"title">>},
     denied : {FALSE}]

\* the key k of the resource res of the role x is one the statement names
Named(access, x, res, k) ==
    /\ x \in Items(access.role)
    /\ res \in Items(access.resource)
    /\ k = StatementKey(access, TRUE)

\* h differs from g at most by keys, resource entries and role entries that
\* the statement names
OnlyNamedKeysChanged(g, h, access) ==
    /\ DOMAIN g \subseteq DOMAIN h
    /\ DOMAIN h \subseteq DOMAIN g \cup Items(access.role)
    /\ \A x \in DOMAIN h :
          /\ IF x \in DOMAIN g
                THEN /\ h[x].hasExtend = g[x].hasExtend
                     /\ h[x].extend = g[x].extend
                     /\ DOMAIN g[x].res \subseteq DOMAIN h[x].res
                ELSE ~h[x].hasExtend
          /\ \A res \in DOMAIN h[x].res :
                LET before == IF x \in DOMAIN g /\ res \in DOMAIN g[x].res
                              THEN g[x].res[res] ELSE EmptyObject
                IN /\ (before = EmptyObject /\ (x \notin DOMAIN g \/ res \notin DOMAIN g[x].res))
                        => (x \in Items(access.role) /\ res \in Items(access.resource))
                   /\ DOMAIN before \subseteq DOMAIN h[x].res[res]
                   /\ \A k \in DOMAIN h[x].res[res] :
                         \/ Named(access, x, res, k)
                         \/ (k \in DOMAIN before /\ h[x].res[res][k] = before[k])

\* C27: a successful commit changes only the action:possession key named by
\* the statement in the resource entries of the role and resource pairs it
\* names (creating the entries that are missing): every other key of those
\* entries, every other resource entry, every other role entry and every
\* extends list are unchanged, and no commit changes the locked flag.
C27_CommitFrame ==
    /\ [](\A access \in FrameAccessInfos :
             LET r == guardLocked(isLocked, grants,
                          commitToGrants(grants, frozen, access, TRUE))
             IN r.err = OK => OnlyNamedKeysChanged(grants, r.grants, access))
    /\ [][last'.op = "commit" => (isLocked' = isLocked /\ frozen' = frozen)]_vars

\* a commit has succeeded on a table where one role has an extends list and
\* a rule on a resource and another role has none
C27_Witness ==
    /\ last.op = "commit" /\ last.err = OK
    /\ \E x, y \in DOMAIN grants :
          /\ Extenders(grants, x) # {}
          /\ DOMAIN grants[x].res # {}
          /\ DOMAIN grants[y].res = {}

====
